---- MODULE Spec2Model ----
(***************************************************************************)
(* hardcandy: declarative schemas made of typed fields.                    *)
(*                                                                         *)
(* Part I   - schema registration (SchemaMeta.__new__) and instance-level  *)
(*            field overrides (Schema.__init__) over a heap of Field       *)
(*            objects.                                          (Spec)     *)
(* Part II  - the field types of hardcandy/fields.py as operators.         *)
(* Part III - Schema.deserialize_raw over bounded schemas and inputs.      *)
(*                                                              (SpecDeser)*)
(* Part IV  - single field operations: serialize/deserialize round trip,   *)
(*            CoalesceField, Text.                              (SpecField)*)
(*                                                                         *)
(* Python strings are sequences of one-character strings; an optional      *)
(* attribute (None or a value) is a sequence of length 0 or 1.             *)
(***************************************************************************)
EXTENDS Integers, Sequences, FiniteSets, TLC

VARIABLES heap, classes, instances,
          dschema, dinput, dresult,
          fcase, fresult

vars == <<heap, classes, instances, dschema, dinput, dresult, fcase, fresult>>
regVars == <<heap, classes, instances>>
deserVars == <<dschema, dinput, dresult>>
fieldVars == <<fcase, fresult>>

\* ------------------------------------------------------------------ bounds
\* classes and instances that exist at once, counted with the fields they hold
MaxSize == 7

\* ------------------------------------------------------- strings, options
None == <<>>
NO_DEFAULT_MARKER == None
Some(x) == <<x>>
Val(o) == o[1]

Str(s) == [t |-> "str", s |-> s]

UpperChar(c) ==
    CASE c = "a" -> "A" [] c = "b" -> "B" [] c = "c" -> "C" [] c = "x" -> "X"
      [] c = "r" -> "R" [] c = "e" -> "E" [] c = "d" -> "D"
      [] c = "t" -> "T" [] c = "u" -> "U" [] c = "f" -> "F"
      [] c = "l" -> "L" [] c = "s" -> "S" [] c = "n" -> "N"
      [] OTHER -> c

LowerChar(c) ==
    CASE c = "A" -> "a" [] c = "B" -> "b" [] c = "C" -> "c" [] c = "X" -> "x"
      [] c = "R" -> "r" [] c = "E" -> "e" [] c = "D" -> "d"
      [] c = "T" -> "t" [] c = "U" -> "u" [] c = "F" -> "f"
      [] c = "L" -> "l" [] c = "S" -> "s" [] c = "N" -> "n"
      [] OTHER -> c

StrLower(s) == [i \in 1..Len(s) |-> LowerChar(s[i])]

\* str.capitalize(): first character upper-cased, the rest lower-cased
Capitalize(s) ==
    [i \in 1..Len(s) |-> IF i = 1 THEN UpperChar(s[i]) ELSE LowerChar(s[i])]

\* str.split(sep) for a one-character separator
RECURSIVE StrSplit(_, _)
StrSplit(s, sep) ==
    IF \A i \in 1..Len(s) : s[i] # sep
    THEN <<s>>
    ELSE LET i == CHOOSE j \in 1..Len(s) :
                      s[j] = sep /\ \A k \in 1..(j - 1) : s[k] # sep
         IN <<SubSeq(s, 1, i - 1)>> \o StrSplit(SubSeq(s, i + 1, Len(s)), sep)

\* sep.join(parts)
RECURSIVE StrJoin(_, _)
StrJoin(sep, parts) ==
    IF Len(parts) = 0 THEN <<>>
    ELSE IF Len(parts) = 1 THEN parts[1]
    ELSE parts[1] \o sep \o StrJoin(sep, Tail(parts))

\* value in container, for strings: a contiguous substring
IsSubstring(a, b) ==
    \E i \in 0..(Len(b) - Len(a)) : SubSeq(b, i + 1, i + Len(a)) = a

\* ================================================================ Part I
\* Field objects live on a heap (heap[ref]); an ordered dict of fields is a
\* sequence of [key, ref] entries with pairwise distinct keys.

Keys == {<<"a">>, <<"b", "_", "c">>}

\* Field.__init__ with the keyword arguments that registration reads
NewField(name) == [name |-> name, display_name |-> None, source |-> None]

\* ' '.join(v.capitalize() for v in name.split('_'))
DisplayName(name) ==
    LET parts == StrSplit(name, "_")
    IN StrJoin(<<" ">>, [i \in 1..Len(parts) |-> Capitalize(parts[i])])

update_name(f, name) ==
    LET n == IF f.name = None THEN Some(name) ELSE f.name
        d == IF f.display_name = None THEN Some(DisplayName(Val(n)))
             ELSE f.display_name
        s == IF f.source = None THEN n ELSE f.source
    IN [name |-> n, display_name |-> d, source |-> s]

OdHas(d, k) == \E i \in 1..Len(d) : d[i].key = k

\* d[k] = ref on an insertion-ordered dict: an existing key keeps its place
OdSet(d, k, ref) ==
    IF OdHas(d, k)
    THEN [i \in 1..Len(d) |-> IF d[i].key = k THEN [key |-> k, ref |-> ref] ELSE d[i]]
    ELSE Append(d, [key |-> k, ref |-> ref])

\* d.update(other)
RECURSIVE OdUpdate(_, _)
OdUpdate(d, other) ==
    IF Len(other) = 0 THEN d
    ELSE OdUpdate(OdSet(d, other[1].key, other[1].ref), Tail(other))

Reverse(s) == [i \in 1..Len(s) |-> s[Len(s) + 1 - i]]

\* for k, v in base_class.fields.items(): fields[k] = copy.copy(v)
\* acc = [heap, fields]; copy.copy allocates a new object with the same attributes
RECURSIVE SeedFrom(_, _)
SeedFrom(acc, items) ==
    IF Len(items) = 0 THEN acc
    ELSE LET h == Append(acc.heap, acc.heap[items[1].ref])
         IN SeedFrom([heap |-> h, fields |-> OdSet(acc.fields, items[1].key, Len(h))],
                     Tail(items))

\* for base_class in reversed(base_classes): ...
RECURSIVE SeedBases(_, _, _)
SeedBases(acc, bases, cls) ==
    IF Len(bases) = 0 THEN acc
    ELSE SeedBases(SeedFrom(acc, cls[bases[1]].fields), Tail(bases), cls)

\* the key under which a declared field is registered
RegisterKey(f, key) == Val(f.name)

\* for key, attribute in attributes.items():
\*     attribute.update_name(key); fields[attribute.name] = attribute
RECURSIVE RegisterOwn(_, _)
RegisterOwn(acc, attrs) ==
    IF Len(attrs) = 0 THEN acc
    ELSE LET ref == attrs[1].ref
             f == update_name(acc.heap[ref], attrs[1].key)
             h == [acc.heap EXCEPT ![ref] = f]
         IN RegisterOwn([heap |-> h,
                         fields |-> OdSet(acc.fields, RegisterKey(f, attrs[1].key), ref)],
                        Tail(attrs))

\* variant: the class's own declarations are registered before the ancestors'
\* fields are seeded, so an ancestor's copy wins and own names come first
SchemaMeta_new_OwnFirst(h, cls, bases, attrs) ==
    SeedBases(RegisterOwn([heap |-> h, fields |-> <<>>], attrs), Reverse(bases), cls)

\* SchemaMeta.__new__: the new class's fields and the heap afterwards
SchemaMeta_new(h, cls, bases, attrs) ==
    RegisterOwn(SeedBases([heap |-> h, fields |-> <<>>], Reverse(bases), cls), attrs)

\* update_name on every override, in the override map's order
RECURSIVE UpdateNames(_, _)
UpdateNames(h, items) ==
    IF Len(items) = 0 THEN h
    ELSE UpdateNames([h EXCEPT ![items[1].ref] = update_name(h[items[1].ref], items[1].key)],
                     Tail(items))

\* variant: the copy.copy is missing, the overrides land in the class-level dict
Schema_init_NoCopy(h, classFields, overrides) ==
    [heap |-> UpdateNames(h, overrides),
     own |-> OdUpdate(classFields, overrides),
     shared |-> OdUpdate(classFields, overrides)]

\* Schema.__init__(fields): the instance's fields attribute and what it does to
\* the class-level dict.  inst.fields is a private dict only when overrides
\* are given; `shared` is the class-level dict after the call.
Schema_init(h, classFields, overrides) ==
    [heap |-> UpdateNames(h, overrides),
     own |-> OdUpdate(classFields, overrides),
     shared |-> classFields]

\* A class body / override map: entries with distinct keys, each a fresh
\* Field (explicit name or none) or one of the existing Field objects `known`.
Choices(known) ==
    [kind : {"fresh"}, name : {None} \cup {Some(k) : k \in Keys}, ref : {0}]
       \cup [kind : {"reuse"}, name : {None}, ref : known]

Decls(known) ==
    UNION {{d \in [1..n -> [key : Keys, c : Choices(known)]] :
               \A i, j \in 1..n : i # j => d[i].key # d[j].key}
           : n \in 0..Cardinality(Keys)}

\* the Field objects of a field dict
Refs(d) == {d[i].ref : i \in 1..Len(d)}

\* evaluate the Field(...) constructor calls of a declaration list
RECURSIVE Allocate(_, _)
Allocate(acc, decls) ==
    IF Len(decls) = 0 THEN acc
    ELSE LET c == decls[1].c
             h == IF c.kind = "fresh" THEN Append(acc.heap, NewField(c.name))
                  ELSE acc.heap
             r == IF c.kind = "fresh" THEN Len(h) ELSE c.ref
         IN Allocate([heap |-> h,
                      items |-> Append(acc.items, [key |-> decls[1].key, ref |-> r])],
                     Tail(decls))

RECURSIVE SumLen(_)
SumLen(seq) == IF Len(seq) = 0 THEN 0 ELSE 1 + Len(seq[1].fields) + SumLen(Tail(seq))

\* what the classes and instances of a state hold
Size(cls, insts) == SumLen(cls) + SumLen(insts)

\* the root class Schema: no bases with fields, no Field attributes
RegInit ==
    /\ heap = <<>>
    /\ classes = <<[bases |-> <<>>, fields |-> <<>>, attrs |-> <<>>]>>
    /\ instances = <<>>

\* class X(B): <declarations>
DefineClass ==
    \E b \in 1..Len(classes) :
        /\ Size(classes, instances) + 1 + Len(classes[b].fields) <= MaxSize
        /\ \E decls \in Decls(Refs(classes[b].fields)) :
             /\ Len(decls) >= 1
             /\ LET al == Allocate([heap |-> heap, items |-> <<>>], decls)
                    r == SchemaMeta_new(al.heap, classes, <<b>>, al.items)
                    new == Append(classes,
                                  [bases |-> <<b>>, fields |-> r.fields, attrs |-> al.items])
                IN /\ Size(new, instances) <= MaxSize
                   /\ heap' = r.heap
                   /\ classes' = new
        /\ UNCHANGED instances

\* X() or X(fields = {...})
Instantiate ==
    \E c \in 1..Len(classes) :
        \/ /\ Size(classes, instances) + 1 <= MaxSize
           /\ instances' = Append(instances, [cls |-> c, private |-> FALSE, fields |-> <<>>])
           /\ UNCHANGED <<heap, classes>>
        \/ /\ Size(classes, instances) + 1 + Len(classes[c].fields) <= MaxSize
           /\ \E decls \in Decls(Refs(classes[c].fields)) :
             LET al == Allocate([heap |-> heap, items |-> <<>>], decls)
                 r == Schema_init(al.heap, classes[c].fields, al.items)
                 new == Append(instances, [cls |-> c, private |-> TRUE, fields |-> r.own])
             IN /\ Size(classes, new) <= MaxSize
                /\ heap' = r.heap
                /\ classes' = [classes EXCEPT ![c].fields = r.shared]
                /\ instances' = new

\* self.fields of an instance: its private dict, or the class attribute
Resolved(inst) == IF inst.private THEN inst.fields ELSE classes[inst.cls].fields

\* the other parts' variables while a part runs
RegIdle == RegInit
DeserIdle == dschema = <<>> /\ dinput = <<>> /\ dresult = None
FieldIdle == fcase = <<>> /\ fresult = None

Init == RegInit /\ DeserIdle /\ FieldIdle

Next ==
    \/ DefineClass /\ UNCHANGED <<deserVars, fieldVars>>
    \/ Instantiate /\ UNCHANGED <<deserVars, fieldVars>>

Spec == Init /\ [][Next]_vars

\* ------------------------------------------------------- claims, Part I
FieldName(ref) == Val(heap[ref].name)

\* the last declaration of class c whose field is named k (0: none)
LastAttr(c, k) ==
    LET hits == {j \in 1..Len(classes[c].attrs) : FieldName(classes[c].attrs[j].ref) = k}
    IN IF hits = {} THEN 0 ELSE CHOOSE j \in hits : \A m \in hits : m <= j

\* the names class c declares that its base does not have, in declaration order
RECURSIVE NewNames(_, _, _)
NewNames(c, baseFields, j) ==
    IF j > Len(classes[c].attrs) THEN <<>>
    ELSE LET k == FieldName(classes[c].attrs[j].ref)
             earlier == \E m \in 1..(j - 1) : FieldName(classes[c].attrs[m].ref) = k
         IN (IF OdHas(baseFields, k) \/ earlier THEN <<>> ELSE <<k>>)
                \o NewNames(c, baseFields, j + 1)

\* C5: the resolved fields of a subclass list the ancestor's fields first, in
\* the ancestor's order; a name the subclass redeclares holds the subclass's
\* Field object at the ancestor's position; an ancestor field that is not
\* redeclared is preserved (a copy with the same attributes); new names follow
\* at the end in declaration order.
C5_OverrideKeepsPosition ==
    \A c \in 2..Len(classes) :
        LET bf == classes[classes[c].bases[1]].fields
            cf == classes[c].fields
            new == NewNames(c, bf, 1)
        IN /\ Len(cf) = Len(bf) + Len(new)
           /\ \A i \in 1..Len(bf) :
                /\ cf[i].key = bf[i].key
                /\ IF LastAttr(c, bf[i].key) # 0
                   THEN cf[i].ref = classes[c].attrs[LastAttr(c, bf[i].key)].ref
                   ELSE /\ cf[i].ref # bf[i].ref
                        /\ \A j \in 1..Len(classes[c].attrs) :
                               cf[i].ref # classes[c].attrs[j].ref
                        /\ heap[cf[i].ref] = heap[bf[i].ref]
           /\ \A i \in 1..Len(new) :
                /\ cf[Len(bf) + i].key = new[i]
                /\ cf[Len(bf) + i].ref = classes[c].attrs[LastAttr(c, new[i])].ref

\* a subclass of a two-field class redeclares the first field's name: its own
\* object sits at position 1 and the ancestor's second field follows
C5_Witness ==
    \E c \in 2..Len(classes) :
        LET bf == classes[classes[c].bases[1]].fields
            cf == classes[c].fields
        IN /\ Len(bf) = 2 /\ Len(cf) = 2
           /\ LastAttr(c, bf[1].key) # 0
           /\ cf[1].ref = classes[c].attrs[LastAttr(c, bf[1].key)].ref
           /\ LastAttr(c, bf[2].key) = 0
           /\ cf[2].key = bf[2].key

\* C6: constructing an instance (with or without overrides) leaves every
\* class-level field dict as it was, same keys, order and Field objects, and
\* those objects unmodified; instances that already exist keep their fields.
C6_ClassFieldsUntouched ==
    [][Len(instances') > Len(instances) =>
          /\ \A c \in 1..Len(classes) :
                /\ classes'[c].fields = classes[c].fields
                /\ \A i \in 1..Len(classes[c].fields) :
                      heap'[classes[c].fields[i].ref] = heap[classes[c].fields[i].ref]
          /\ \A k \in 1..Len(instances) :
                /\ instances'[k] = instances[k]
                /\ \A i \in 1..Len(instances[k].fields) :
                      heap'[instances[k].fields[i].ref] = heap[instances[k].fields[i].ref]]_vars

\* an instance whose private dict differs from its class's dict, which has fields
C6_Witness ==
    \E k \in 1..Len(instances) :
        /\ instances[k].private
        /\ Len(classes[instances[k].cls].fields) >= 1
        /\ instances[k].fields # classes[instances[k].cls].fields

AllSchemas ==
    {classes[c].fields : c \in 1..Len(classes)}
        \cup {Resolved(instances[k]) : k \in 1..Len(instances)}

\* C7: in every resolved field collection, class-level or instance-level,
\* each entry's key is its field's name and no two entries share a field name.
C7_NamesUnique ==
    \A d \in AllSchemas :
        /\ \A i \in 1..Len(d) : d[i].key = FieldName(d[i].ref)
        /\ \A i, j \in 1..Len(d) : i # j => FieldName(d[i].ref) # FieldName(d[j].ref)

\* the class-level half of C7 alone
ClassNamesUnique ==
    \A c \in 1..Len(classes) :
        LET d == classes[c].fields
        IN /\ \A i \in 1..Len(d) : d[i].key = FieldName(d[i].ref)
           /\ \A i, j \in 1..Len(d) : i # j => FieldName(d[i].ref) # FieldName(d[j].ref)

\* =============================================================== Part II
\* Python values, tagged by type.  A float is a count of hundredths (the
\* values used are multiples of 0.25, which binary floating point holds
\* exactly, so rounding ties fall as in the code) or NaN.
PyNone == [t |-> "none"]
PyInt(i) == [t |-> "int", i |-> i]
PyBool(b) == [t |-> "bool", b |-> b]
PyFloat(h) == [t |-> "float", h |-> h]
PyNaN == [t |-> "nan"]
PyEnum(m) == [t |-> "enum", m |-> m]
PyDatetime(d) == [t |-> "datetime", d |-> d]
PyMap(kv) == [t |-> "map", kv |-> kv]

\* a == b in Python: bool, int and float compare by number, NaN equals
\* nothing, an aware datetime never equals a naive one
PyEq(a, b) ==
    LET num(x) == x.t \in {"int", "bool", "float"}
        hundredths(x) == CASE x.t = "int" -> 100 * x.i
                           [] x.t = "bool" -> 100 * x.b
                           [] x.t = "float" -> x.h
    IN IF num(a) /\ num(b) THEN hundredths(a) = hundredths(b)
       ELSE IF a.t = "nan" \/ b.t = "nan" THEN FALSE
       ELSE IF a.t # b.t THEN FALSE
       ELSE a = b

Digits == <<"0", "1", "2", "3", "4", "5", "6", "7", "8", "9">>
IsDigit(c) == \E d \in 1..10 : Digits[d] = c
DigitVal(c) == (CHOOSE d \in 1..10 : Digits[d] = c) - 1

RECURSIVE NatToStr(_)
NatToStr(n) ==
    IF n < 10 THEN <<Digits[n + 1]>>
    ELSE NatToStr(n \div 10) \o <<Digits[(n % 10) + 1]>>

IntToStr(i) == IF i < 0 THEN <<"-">> \o NatToStr(-i) ELSE NatToStr(i)

AllDigits(s) == Len(s) >= 1 /\ \A i \in 1..Len(s) : IsDigit(s[i])

RECURSIVE StrToNat(_)
StrToNat(s) ==
    IF Len(s) = 0 THEN 0
    ELSE 10 * StrToNat(SubSeq(s, 1, Len(s) - 1)) + DigitVal(s[Len(s)])

\* zero-padded decimal of width w (%d, %m, %H, %M, %S: 2; %Y: 4)
RECURSIVE Pad(_, _)
Pad(n, w) == IF w = 0 THEN <<>> ELSE Pad(n \div 10, w - 1) \o <<Digits[(n % 10) + 1]>>

\* repr of a float: sign, integer part, '.', the fraction without trailing
\* zeros but with at least one digit
FormatFloat(h) ==
    LET a == IF h < 0 THEN -h ELSE h
        frac == a % 100
    IN (IF h < 0 THEN <<"-">> ELSE <<>>) \o NatToStr(a \div 100) \o <<".">>
          \o (IF frac % 10 = 0 THEN <<Digits[(frac \div 10) + 1]>> ELSE Pad(frac, 2))

\* str(value)
PyStr(v) ==
    CASE v.t = "str" -> v.s
      [] v.t = "int" -> IntToStr(v.i)
      [] v.t = "bool" -> IF v.b = 1 THEN <<"T", "r", "u", "e">>
                         ELSE <<"F", "a", "l", "s", "e">>
      [] v.t = "float" -> FormatFloat(v.h)
      [] v.t = "nan" -> <<"n", "a", "n">>
      [] v.t = "none" -> <<"N", "o", "n", "e">>
      [] v.t = "enum" -> <<"E", ".">> \o v.m

\* results of a conversion or of a deserialize call
Ok(v) == [ok |-> TRUE, v |-> v]
Raise(type) == [ok |-> FALSE, type |-> type]

\* int(value): ValueError or TypeError when it does not convert
IntOf(v) ==
    CASE v.t = "int" -> Ok(v.i)
      [] v.t = "bool" -> Ok(v.b)
      [] v.t = "float" -> Ok(IF v.h < 0 THEN -((-v.h) \div 100) ELSE v.h \div 100)
      [] v.t = "nan" -> Raise("ValueError")
      [] v.t = "str" ->
           LET neg == Len(v.s) >= 1 /\ v.s[1] = "-"
               body == IF neg THEN Tail(v.s) ELSE v.s
           IN IF AllDigits(body)
              THEN Ok(IF neg THEN -StrToNat(body) ELSE StrToNat(body))
              ELSE Raise("ValueError")
      [] OTHER -> Raise("TypeError")

\* float(value), in hundredths; strings carry at most two decimals
FloatOf(v) ==
    CASE v.t = "float" -> Ok(v)
      [] v.t = "nan" -> Ok(v)
      [] v.t = "int" -> Ok(PyFloat(100 * v.i))
      [] v.t = "bool" -> Ok(PyFloat(100 * v.b))
      [] v.t = "str" ->
           LET neg == Len(v.s) >= 1 /\ v.s[1] = "-"
               body == IF neg THEN Tail(v.s) ELSE v.s
               parts == StrSplit(body, ".")
               sign == IF neg THEN -1 ELSE 1
           IN IF StrLower(body) = <<"n", "a", "n">> THEN Ok(PyNaN)
              ELSE IF Len(parts) = 1 /\ AllDigits(parts[1])
              THEN Ok(PyFloat(sign * 100 * StrToNat(parts[1])))
              ELSE IF Len(parts) = 2 /\ AllDigits(parts[1]) /\ AllDigits(parts[2])
                      /\ Len(parts[2]) <= 2
              THEN Ok(PyFloat(sign * (100 * StrToNat(parts[1])
                         + (IF Len(parts[2]) = 1 THEN 10 ELSE 1) * StrToNat(parts[2]))))
              ELSE Raise("ValueError")
      [] OTHER -> Raise("TypeError")

\* round(value, ndigits) for ndigits in 0..2: to the nearest, ties to even
RoundFloat(h, ndigits) ==
    LET u == CASE ndigits = 0 -> 100 [] ndigits = 1 -> 10 [] OTHER -> 1
        q == h \div u
        r == h - q * u
    IN IF 2 * r < u THEN q * u
       ELSE IF 2 * r > u THEN (q + 1) * u
       ELSE IF q % 2 = 0 THEN q * u ELSE (q + 1) * u

\* distutils.util.strtobool
strtobool(s) ==
    LET val == StrLower(s)
    IN IF val \in {<<"y">>, <<"y", "e", "s">>, <<"t">>, <<"t", "r", "u", "e">>,
                   <<"o", "n">>, <<"1">>}
       THEN Ok(1)
       ELSE IF val \in {<<"n">>, <<"n", "o">>, <<"f">>, <<"f", "a", "l", "s", "e">>,
                        <<"o", "f", "f">>, <<"0">>}
       THEN Ok(0)
       ELSE Raise("ValueError")

\* variant: the month is written before the day
StrfTime_MonthFirst(d) ==
    Pad(d.month, 2) \o <<"/">> \o Pad(d.day, 2) \o <<"/">> \o Pad(d.year, 4) \o <<" ">>
       \o Pad(d.hour, 2) \o <<":">> \o Pad(d.minute, 2) \o <<":">> \o Pad(d.second, 2)

\* value.strftime('%d/%m/%Y %H:%M:%S') for a year of four digits: microseconds
\* and tzinfo are not written
StrfTime(d) ==
    Pad(d.day, 2) \o <<"/">> \o Pad(d.month, 2) \o <<"/">> \o Pad(d.year, 4) \o <<" ">>
       \o Pad(d.hour, 2) \o <<":">> \o Pad(d.minute, 2) \o <<":">> \o Pad(d.second, 2)

DaysIn(month, year) ==
    CASE month \in {4, 6, 9, 11} -> 30
      [] month = 2 -> IF year % 4 = 0 /\ (year % 100 # 0 \/ year % 400 = 0) THEN 29 ELSE 28
      [] OTHER -> 31

\* datetime.strptime(value, '%d/%m/%Y %H:%M:%S') on zero-padded text: a naive
\* datetime with microsecond 0; TypeError when value is not a string
StrpTime(v) ==
    IF v.t # "str" THEN Raise("TypeError")
    ELSE LET s == v.s
             num(i, j) == StrToNat(SubSeq(s, i, j))
         IN IF /\ Len(s) = 19
               /\ s[3] = "/" /\ s[6] = "/" /\ s[11] = " " /\ s[14] = ":" /\ s[17] = ":"
               /\ \A i \in (1..19) \ {3, 6, 11, 14, 17} : IsDigit(s[i])
               /\ num(4, 5) \in 1..12
               /\ num(1, 2) \in 1..DaysIn(num(4, 5), num(7, 10))
               /\ num(7, 10) >= 1
               /\ num(12, 13) \in 0..23 /\ num(15, 16) \in 0..59 /\ num(18, 19) \in 0..59
            THEN Ok(PyDatetime([day |-> num(1, 2), month |-> num(4, 5), year |-> num(7, 10),
                                hour |-> num(12, 13), minute |-> num(15, 16),
                                second |-> num(18, 19), microsecond |-> 0, aware |-> FALSE]))
            ELSE Raise("ValueError")

\* re.Pattern.match(value) for a pattern that is a literal: a match at the
\* start of the string, which need not reach its end
ReMatch(pattern, s) ==
    Len(s) >= Len(pattern) /\ SubSeq(s, 1, Len(pattern)) = pattern

\* ---------------------------------------------------------------- fields
\* Field.__init__ defaults (required, not read-only, no default, ...) after
\* update_name(name), per field class
IntegerField(name, min, max) ==
    [kind |-> "Integer", name |-> name, source |-> name, required |-> TRUE,
     read_only |-> FALSE, write_only |-> FALSE, default |-> NO_DEFAULT_MARKER, unbound |-> FALSE,
     deserialize_none |-> FALSE, min |-> min, max |-> max]
FloatField(name, min, max, max_precision) ==
    [kind |-> "Float", name |-> name, source |-> name, required |-> TRUE,
     read_only |-> FALSE, write_only |-> FALSE, default |-> NO_DEFAULT_MARKER, unbound |-> FALSE,
     deserialize_none |-> FALSE, min |-> min, max |-> max,
     max_precision |-> max_precision]
BoolField(name) ==
    [kind |-> "Bool", name |-> name, source |-> name, required |-> TRUE,
     read_only |-> FALSE, write_only |-> FALSE, default |-> NO_DEFAULT_MARKER, unbound |-> FALSE,
     deserialize_none |-> FALSE]
TextField(name, min, max, pattern) ==
    [kind |-> "Text", name |-> name, source |-> name, required |-> TRUE,
     read_only |-> FALSE, write_only |-> FALSE, default |-> NO_DEFAULT_MARKER, unbound |-> FALSE,
     deserialize_none |-> FALSE, min |-> min, max |-> max, pattern |-> pattern]
EnumField(name, enum, soft_match) ==
    [kind |-> "Enum", name |-> name, source |-> name, required |-> TRUE,
     read_only |-> FALSE, write_only |-> FALSE, default |-> NO_DEFAULT_MARKER, unbound |-> FALSE,
     deserialize_none |-> FALSE, enum |-> enum, soft_match |-> soft_match]
DatetimeField(name) ==
    [kind |-> "Datetime", name |-> name, source |-> name, required |-> TRUE,
     read_only |-> FALSE, write_only |-> FALSE, default |-> NO_DEFAULT_MARKER, unbound |-> FALSE,
     deserialize_none |-> FALSE]
RelatedField(name, schema) ==
    [kind |-> "Related", name |-> name, source |-> name, required |-> TRUE,
     read_only |-> FALSE, write_only |-> FALSE, default |-> NO_DEFAULT_MARKER, unbound |-> FALSE,
     deserialize_none |-> FALSE, schema |-> schema]
CoalesceFieldOf(name, fields) ==
    [kind |-> "Coalesce", name |-> name, source |-> name, required |-> TRUE,
     read_only |-> FALSE, write_only |-> FALSE, default |-> NO_DEFAULT_MARKER, unbound |-> FALSE,
     deserialize_none |-> FALSE, fields |-> fields]

FieldValidationError(f, reason) ==
    [type |-> "FieldValidationError", field |-> f.name, reason |-> reason]
ValidationError(reason) == [type |-> "ValidationError", reason |-> reason]
DeserializationError(errors) == [type |-> "DeserializationError", errors |-> errors]

\* BaseValidationError.serialized of the three error classes
RECURSIVE Serialized(_)
Serialized(e) ==
    CASE e.type = "DeserializationError" ->
           [errors |-> [i \in 1..Len(e.errors) |-> Serialized(e.errors[i])]]
      [] e.type = "ValidationError" -> [error |-> e.reason]
      [] e.type = "FieldValidationError" -> [field |-> e.field, error |-> e.reason]

Fail(exc) == [ok |-> FALSE, exc |-> exc]
Invalid(f) == Fail(FieldValidationError(f, [text |-> "invalid value"]))
OutOfRange(f) == Fail(FieldValidationError(f, [text |-> "not in allowed range"]))

\* self._min is not None and x < self._min or self._max is not None and x > self._max
Outside(f, x) == (f.min # None /\ x < Val(f.min)) \/ (f.max # None /\ x > Val(f.max))

Integer_deserialize(f, value) ==
    LET c == IntOf(value)
    IN IF ~c.ok THEN Invalid(f)
       ELSE IF Outside(f, c.v) THEN OutOfRange(f)
       ELSE Ok(PyInt(c.v))

\* min and max of a Float field are whole numbers here
Float_deserialize(f, value) ==
    LET c == FloatOf(value)
    IN IF ~c.ok THEN Invalid(f)
       ELSE IF c.v.t = "float" /\ ((f.min # None /\ c.v.h < 100 * Val(f.min))
                                    \/ (f.max # None /\ c.v.h > 100 * Val(f.max)))
       THEN OutOfRange(f)
       ELSE Ok(c.v)

Float_serialize(f, value) ==
    IF f.max_precision = None \/ value.t = "nan" THEN Str(PyStr(value))
    ELSE Str(PyStr(PyFloat(RoundFloat(value.h, Val(f.max_precision)))))

Bool_deserialize(f, value) ==
    LET c == strtobool(PyStr(value))
    IN IF c.ok THEN Ok(PyInt(c.v)) ELSE Invalid(f)

\* whether the pattern check of Text.deserialize accepts the string
PatternAccepts(pattern, s) == ReMatch(pattern, s)

Text_deserialize(f, value) ==
    IF value.t = "none" THEN Invalid(f)
    ELSE LET s == PyStr(value)
         IN IF Outside(f, Len(s)) THEN OutOfRange(f)
            ELSE IF f.pattern # None /\ ~PatternAccepts(Val(f.pattern), s)
            THEN Fail(FieldValidationError(f, [text |-> "does not match pattern"]))
            ELSE Ok(Str(s))

Enum_serialize(f, value) == Str(value.m)

Enum_deserialize(f, value) ==
    LET s == PyStr(value)
        options == {i \in 1..Len(f.enum) : IsSubstring(StrLower(s), StrLower(f.enum[i]))}
    IN IF \E i \in 1..Len(f.enum) : f.enum[i] = s THEN Ok(PyEnum(s))
       ELSE IF f.soft_match /\ Cardinality(options) = 1
       THEN Ok(PyEnum(f.enum[CHOOSE i \in options : TRUE]))
       ELSE Invalid(f)

Datetime_serialize(f, value) ==
    IF value.t = "datetime" THEN Str(StrfTime(value.d)) ELSE PyNone

Datetime_deserialize(f, value) ==
    LET c == StrpTime(value)
    IN IF c.ok THEN Ok(c.v) ELSE Invalid(f)

\* the bound methods serialize / deserialize, by field class; a deserialize
\* result carries the deserialize calls made, outermost first
RECURSIVE Field_serialize(_, _)
Field_serialize(f, value) ==
    CASE f.kind = "Float" -> Float_serialize(f, value)
      [] f.kind = "Enum" -> Enum_serialize(f, value)
      [] f.kind = "Datetime" -> Datetime_serialize(f, value)
      [] f.kind = "Coalesce" -> Field_serialize(f.fields[1], value)
      [] OTHER -> value

RECURSIVE Field_deserialize(_, _), deserialize_raw(_, _), CoalesceField_deserialize(_, _, _)

Called(f, value, r) == [r EXCEPT !.calls = <<[f |-> f, arg |-> value]>> \o @]
NoCalls(r) ==
    IF r.ok THEN [ok |-> TRUE, v |-> r.v, calls |-> <<>>]
    ELSE [ok |-> FALSE, exc |-> r.exc, calls |-> <<>>]

\* Related.deserialize
Related_deserialize(f, value) ==
    LET r == deserialize_raw(f.schema, value)
    IN IF r.ok THEN r
       ELSE [ok |-> FALSE, exc |-> FieldValidationError(f, Serialized(r.exc)),
             calls |-> r.calls]

\* variant: the except clause is missing, the first field's failure is final
CoalesceField_deserialize_NoCatch(f, value, i) == Field_deserialize(f.fields[i], value)

\* CoalesceField.deserialize from the i-th field on
CoalesceField_deserialize(f, value, i) ==
    LET r == Field_deserialize(f.fields[i], value)
    IN IF i >= Len(f.fields) THEN r
       ELSE IF r.ok THEN r
       ELSE IF r.exc.type = "FieldValidationError"
       THEN LET rest == CoalesceField_deserialize(f, value, i + 1)
            IN [rest EXCEPT !.calls = r.calls \o @]
       ELSE r

Field_deserialize(f, value) ==
    Called(f, value,
        CASE f.kind = "Integer" -> NoCalls(Integer_deserialize(f, value))
          [] f.kind = "Float" -> NoCalls(Float_deserialize(f, value))
          [] f.kind = "Bool" -> NoCalls(Bool_deserialize(f, value))
          [] f.kind = "Text" -> NoCalls(Text_deserialize(f, value))
          [] f.kind = "Enum" -> NoCalls(Enum_deserialize(f, value))
          [] f.kind = "Datetime" -> NoCalls(Datetime_deserialize(f, value))
          [] f.kind = "Related" -> Related_deserialize(f, value)
          [] f.kind = "Coalesce" -> CoalesceField_deserialize(f, value, 1))

\* ============================================================== Part III
\* serialized.get(name)
MapGet(m, k) == IF k \in DOMAIN m.kv THEN m.kv[k] ELSE PyNone
MapPut(kv, k, v) == (k :> v) @@ kv
EmptyMap == [k \in {} |-> PyNone]

\* variant: only the aggregate error class is caught
Catches_OnlyAggregate(type) == type = "DeserializationError"

\* except BaseValidationError
Catches(type) ==
    type \in {"DeserializationError", "ValidationError", "FieldValidationError"}

\* variant: the list is rebuilt at each error, only the last one is kept
AddError_KeepLast(errors, e) == <<e>>

\* errors.append(e)
AddError(errors, e) == Append(errors, e)

MissingRequired(f) == FieldValidationError(f, [text |-> "missing required value"])

\* one pass of the loop body of deserialize_raw;
\* acc = [errors, values, calls, escaped]
LoopBody(field, serialized, acc) ==
    IF field.read_only THEN acc
    ELSE LET got == MapGet(serialized, field.name)
             absent == got.t = "none"
         IN IF absent /\ field.default = NO_DEFAULT_MARKER
            THEN IF field.required
                 THEN [acc EXCEPT !.errors = AddError(@, MissingRequired(field))]
                 ELSE acc
            ELSE LET value == IF absent THEN Val(field.default) ELSE got
                 IN IF value.t = "none" /\ ~field.deserialize_none
                    THEN [acc EXCEPT !.values = MapPut(@, field.source, PyNone)]
                    ELSE LET r == Field_deserialize(field, value)
                             a == [acc EXCEPT !.calls = @ \o r.calls]
                         IN IF r.ok
                            THEN [a EXCEPT !.values = MapPut(@, field.source, r.v)]
                            ELSE IF Catches(r.exc.type)
                            THEN [a EXCEPT !.errors = AddError(@, r.exc)]
                            ELSE [a EXCEPT !.escaped = Some(r.exc)]

\* for field in self.fields.values(): ...   (an uncaught exception ends it)
RECURSIVE FieldLoop(_, _, _, _)
FieldLoop(fields, serialized, i, acc) ==
    IF i > Len(fields) \/ acc.escaped # None THEN acc
    ELSE FieldLoop(fields, serialized, i + 1, LoopBody(fields[i], serialized, acc))

\* Schema.deserialize_raw
deserialize_raw(schema, serialized) ==
    IF serialized.t # "map"
    THEN [ok |-> FALSE,
          exc |-> DeserializationError(<<ValidationError([text |-> "invalid input format"])>>),
          calls |-> <<>>]
    ELSE LET acc == FieldLoop(schema.fields, serialized, 1,
                              [errors |-> <<>>, values |-> EmptyMap, calls |-> <<>>,
                               escaped |-> None])
         IN IF acc.escaped # None
            THEN [ok |-> FALSE, exc |-> Val(acc.escaped), calls |-> acc.calls]
            ELSE IF acc.errors # <<>>
            THEN [ok |-> FALSE, exc |-> DeserializationError(acc.errors), calls |-> acc.calls]
            ELSE [ok |-> TRUE, v |-> PyMap(acc.values), calls |-> acc.calls]

\* ------------------------------------------------ specification, Part III
MaxFields == 2

FieldNames == {<<"a">>, <<"b">>, <<"c">>}

DT0 ==
    PyDatetime([day |-> 1, month |-> 2, year |-> 2020, hour |-> 3, minute |-> 4,
                second |-> 5, microsecond |-> 0, aware |-> FALSE])

\* the schema a Related field points to: one required Integer "n"
Nested == [fields |-> <<IntegerField(<<"n">>, None, None)>>]

\* field declarations a schema may hold under name n
FieldPool(n) ==
    {IntegerField(n, Some(1), None),
     [IntegerField(n, Some(1), None) EXCEPT !.default = Some(PyInt(0))],
     [IntegerField(n, Some(1), None) EXCEPT !.default = Some(PyInt(5)),
                                            !.source = <<"s">> \o n],
     [IntegerField(n, None, None) EXCEPT !.required = FALSE],
     [IntegerField(n, None, None) EXCEPT !.read_only = TRUE],
     [TextField(n, None, None, None) EXCEPT !.deserialize_none = TRUE],
     [TextField(n, None, None, None) EXCEPT !.deserialize_none = TRUE,
                                            !.default = Some(Str(<<"d">>))],
     [TextField(n, None, None, None) EXCEPT !.deserialize_none = TRUE,
                                            !.required = FALSE],
     [TextField(n, None, None, None) EXCEPT !.default = Some(PyNone)],
     [TextField(n, None, None, None) EXCEPT !.default = Some(PyNone),
                                            !.deserialize_none = TRUE],
     [DatetimeField(n) EXCEPT !.default = Some(DT0)],
     RelatedField(n, Nested)}

\* resolved field collections: names pairwise distinct
Schemas ==
    UNION {{[fields |-> fs] :
              fs \in {x \in [1..n -> UNION {FieldPool(m) : m \in FieldNames}] :
                         \A i, j \in 1..n : i # j => x[i].name # x[j].name}}
           : n \in 1..MaxFields}

\* what the input may hold under a field's name: nothing, null, or a primitive
InputsFor(f) ==
    CASE f.kind = "Integer" ->
           {None, Some(PyNone), Some(PyInt(0)), Some(Str(<<"7">>)), Some(Str(<<"x">>))}
      [] f.kind = "Text" -> {None, Some(PyNone), Some(Str(<<"x">>))}
      [] f.kind = "Datetime" -> {None, Some(Str(StrfTime(DT0.d))), Some(Str(<<"x">>))}
      [] f.kind = "Related" ->
           {None, Some(PyNone), Some(Str(<<"x">>)), Some(PyMap(<<"n">> :> PyInt(1))),
            Some(PyMap(EmptyMap))}

InputMaps(schema) ==
    LET fs == schema.fields
        picks == {g \in [1..Len(fs) -> UNION {InputsFor(fs[i]) : i \in 1..Len(fs)}] :
                     \A i \in 1..Len(fs) : g[i] \in InputsFor(fs[i])}
    IN {PyMap([k \in {fs[i].name : i \in {j \in 1..Len(fs) : g[j] # None}} |->
                  Val(g[CHOOSE i \in 1..Len(fs) : fs[i].name = k])]) : g \in picks}

NonMaps == {PyNone, Str(<<"x">>), PyInt(0)}

DeserInit ==
    /\ dschema \in Schemas
    /\ dinput \in InputMaps(dschema) \cup NonMaps
    /\ dresult = None

\* a caller invokes schema.deserialize_raw(serialized)
Call_deserialize_raw ==
    /\ dresult = None
    /\ dresult' = Some(deserialize_raw(dschema, dinput))
    /\ UNCHANGED <<dschema, dinput>>

InitDeser == RegIdle /\ DeserInit /\ FieldIdle

NextDeser == Call_deserialize_raw /\ UNCHANGED <<regVars, fieldVars>>

SpecDeser == InitDeser /\ [][NextDeser]_vars

\* ----------------------------------------------------- claims, Part III
DeserDone == dresult # None
Res == Val(dresult)
IsMapInput == dinput.t = "map"
Fields == dschema.fields
CalledWith(f, arg) == \E i \in 1..Len(Res.calls) : Res.calls[i] = [f |-> f, arg |-> arg]
WasCalled(f) == \E i \in 1..Len(Res.calls) : Res.calls[i].f = f

\* a required field without default whose key yields no value (get() returns
\* None for a missing key and for a null alike)
MissingFails(f) ==
    ~f.read_only /\ f.required /\ f.default = None /\ MapGet(dinput, f.name).t = "none"

\* a field whose deserialize was invoked and raised
DeserializeFails(f) ==
    ~f.read_only /\ \E i \in 1..Len(Res.calls) :
                        Res.calls[i].f = f /\ ~Field_deserialize(f, Res.calls[i].arg).ok

Failing ==
    LET fails(f) == MissingFails(f) \/ DeserializeFails(f)
    IN SelectSeq(Fields, fails)

\* C1: when k >= 1 fields fail, deserialize_raw raises one DeserializationError
\* whose errors are k field errors naming the failing fields in the resolved
\* field order, and every non-read-only field with a value in the input had
\* its deserialize invoked, whatever failed before it.
C1_AllErrorsCollected ==
    (DeserDone /\ IsMapInput) =>
        /\ Len(Failing) >= 1 =>
              /\ ~Res.ok
              /\ Res.exc.type = "DeserializationError"
              /\ Len(Res.exc.errors) = Len(Failing)
              /\ \A i \in 1..Len(Failing) :
                    /\ Res.exc.errors[i].type = "FieldValidationError"
                    /\ Res.exc.errors[i].field = Failing[i].name
        /\ Len(Failing) = 0 => Res.ok
        /\ \A i \in 1..Len(Fields) :
              (~Fields[i].read_only /\ MapGet(dinput, Fields[i].name).t # "none")
                  => WasCalled(Fields[i])

\* two fields failed, the first for a missing key and the second in deserialize
C1_Witness ==
    /\ DeserDone /\ IsMapInput
    /\ Len(Failing) = 2
    /\ MissingFails(Failing[1])
    /\ DeserializeFails(Failing[2])
    /\ Len(Res.exc.errors) = 2

\* C2: a failure of deserialize_raw is a DeserializationError, never a bare
\* FieldValidationError or ValidationError; a non-map input fails with an
\* aggregate of exactly one ValidationError and no field was examined.
C2_OnlyAggregateEscapes ==
    DeserDone =>
        /\ ~Res.ok => Res.exc.type = "DeserializationError"
        /\ ~IsMapInput =>
              /\ ~Res.ok
              /\ Len(Res.exc.errors) = 1
              /\ Res.exc.errors[1].type = "ValidationError"
              /\ Res.calls = <<>>

\* a nested schema's aggregate error was wrapped by a Related field and reached
\* the caller inside the outer aggregate
C2_Witness ==
    /\ DeserDone /\ IsMapInput /\ ~Res.ok
    /\ \E i \in 1..Len(Res.exc.errors) : \E j \in 1..Len(Fields) :
          /\ Fields[j].kind = "Related"
          /\ Res.exc.errors[i].field = Fields[j].name
          /\ Res.exc.errors[i].reason
                = [errors |-> <<[error |-> [text |-> "invalid input format"]]>>]

\* C3: a non-read-only field with a default whose key is absent gets the
\* default itself under field.source, and no error is recorded for it.
C3_DefaultSubstituted ==
    (DeserDone /\ IsMapInput) =>
        \A i \in 1..Len(Fields) :
            LET f == Fields[i]
            IN (~f.read_only /\ f.default # None /\ f.name \notin DOMAIN dinput.kv) =>
                  IF Res.ok
                  THEN /\ f.source \in DOMAIN Res.v.kv
                       /\ Res.v.kv[f.source] = Val(f.default)
                  ELSE \A e \in 1..Len(Res.exc.errors) :
                           Res.exc.errors[e].field # f.name

\* C4: an explicit null under the name of a field with deserialize_none is
\* passed to that field's deserialize.
C4_NullReachesDeserialize ==
    (DeserDone /\ IsMapInput) =>
        \A i \in 1..Len(Fields) :
            LET f == Fields[i]
            IN (~f.read_only /\ f.deserialize_none /\ f.name \in DOMAIN dinput.kv
                    /\ dinput.kv[f.name] = PyNone)
                  => CalledWith(f, PyNone)

\* ------------------------------------------------- specification, Part IV
MaxStrLen == 3
MaxCoalesce == 3

nameX == <<"x">>
Alphabet == {"a", "b"}
Strings(n) == UNION {[1..k -> Alphabet] : k \in 0..n}

IntegerFields == {IntegerField(nameX, None, None), IntegerField(nameX, Some(0), Some(5))}
IntValues == {PyInt(i) : i \in {-3, 0, 5, 12}}

FloatFields ==
    {FloatField(nameX, r[1], r[2], p) : r \in {<<None, None>>, <<Some(0), Some(2)>>},
                                    p \in {None, Some(0), Some(1), Some(2)}}
FloatValues == {PyFloat(h) : h \in {-150, 0, 25, 50, 150, 200}} \cup {PyNaN}

TextFields ==
    {TextField(nameX, mn, mx, pat) : mn \in {None, Some(1)}, mx \in {None, Some(2)},
                                 pat \in {None, Some(<<"a">>), Some(<<"a", "b">>)}}
TextValues == {Str(s) : s \in Strings(MaxStrLen)}

EnumMembers == <<<<"A", "B">>, <<"A", "B", "C">>, <<"X">>>>
EnumFields == {EnumField(nameX, EnumMembers, sm) : sm \in BOOLEAN}
EnumValues == {PyEnum(EnumMembers[i]) : i \in 1..Len(EnumMembers)}

DatetimeValues ==
    {PyDatetime([day |-> d, month |-> m, year |-> 2020, hour |-> h, minute |-> mi,
                 second |-> sec, microsecond |-> us, aware |-> tz]) :
        d \in {1, 31}, m \in {1, 12}, h \in {0, 23}, mi \in {0, 59}, sec \in {0, 59},
        us \in {0, 500}, tz \in BOOLEAN}

\* a domain value of the field's type within the field's declared constraints
Valid(f, v) ==
    CASE f.kind = "Integer" -> v.t = "int" /\ ~Outside(f, v.i)
      [] f.kind = "Float" ->
           \/ v.t = "nan"
           \/ /\ v.t = "float"
              /\ f.min # None => v.h >= 100 * Val(f.min)
              /\ f.max # None => v.h <= 100 * Val(f.max)
      [] f.kind = "Bool" -> v.t = "bool"
      [] f.kind = "Text" ->
           /\ v.t = "str" /\ ~Outside(f, Len(v.s))
           /\ f.pattern # None => v.s = Val(f.pattern)
      [] f.kind = "Enum" -> v \in EnumValues
      [] f.kind = "Datetime" -> v.t = "datetime"

ScalarCases ==
    {[f |-> f, value |-> v] : f \in IntegerFields, v \in IntValues}
       \cup {[f |-> f, value |-> v] : f \in FloatFields, v \in FloatValues}
       \cup {[f |-> f, value |-> v] : f \in {BoolField(nameX)}, v \in {PyBool(0), PyBool(1)}}
       \cup {[f |-> f, value |-> v] : f \in TextFields, v \in TextValues}
       \cup {[f |-> f, value |-> v] : f \in EnumFields, v \in EnumValues}
       \cup {[f |-> f, value |-> v] : f \in {DatetimeField(nameX)}, v \in DatetimeValues}

RoundTripCases ==
    {[op |-> "roundtrip", f |-> c.f, value |-> c.value] :
        c \in {d \in ScalarCases : Valid(d.f, d.value)}}

\* the fields of a CoalesceField carry the CoalesceField's name
CoalescePool ==
    {IntegerField(nameX, None, None), IntegerField(nameX, Some(0), Some(5)),
     TextField(nameX, None, Some(1), None), EnumField(nameX, EnumMembers, FALSE),
     FloatField(nameX, None, None, Some(0))}

CoalesceFields ==
    UNION {{CoalesceFieldOf(nameX, fs) : fs \in [1..n -> CoalescePool]} : n \in 1..MaxCoalesce}

CoalesceInputs ==
    {Str(<<"3">>), Str(<<"7">>), Str(<<"A", "B">>), Str(<<"a", "b">>), PyNone}

\* a value the first field's serialize accepts
SerializableBy(f) ==
    CASE f.kind = "Float" -> {PyFloat(25), PyFloat(150)}
      [] f.kind = "Enum" -> EnumValues
      [] f.kind = "Integer" -> {PyInt(5)}
      [] f.kind = "Text" -> {Str(<<"a">>)}

CoalesceCases ==
    {[op |-> "coalesce_deserialize", f |-> f, value |-> v] :
        f \in CoalesceFields, v \in CoalesceInputs}
       \cup UNION {{[op |-> "coalesce_serialize", f |-> f, value |-> v] :
                       v \in SerializableBy(f.fields[1])} : f \in CoalesceFields}

TextCases ==
    {[op |-> "text", f |-> f, value |-> v] :
        f \in TextFields, v \in TextValues \cup {PyNone, PyInt(5)}}

FieldInit ==
    /\ fcase \in RoundTripCases \cup CoalesceCases \cup TextCases
    /\ fresult = None

\* field.deserialize(field.serialize(value, instance, schema), schema)
RoundTrip ==
    /\ fresult = None /\ fcase.op = "roundtrip"
    /\ LET ser == Field_serialize(fcase.f, fcase.value)
       IN fresult' = Some([ser |-> ser, de |-> Field_deserialize(fcase.f, ser)])
    /\ UNCHANGED fcase

CoalesceDeserializeCall ==
    /\ fresult = None /\ fcase.op = "coalesce_deserialize"
    /\ fresult' = Some(Field_deserialize(fcase.f, fcase.value))
    /\ UNCHANGED fcase

CoalesceSerializeCall ==
    /\ fresult = None /\ fcase.op = "coalesce_serialize"
    /\ fresult' = Some([ser |-> Field_serialize(fcase.f, fcase.value)])
    /\ UNCHANGED fcase

TextDeserializeCall ==
    /\ fresult = None /\ fcase.op = "text"
    /\ fresult' = Some(Field_deserialize(fcase.f, fcase.value))
    /\ UNCHANGED fcase

InitField == RegIdle /\ DeserIdle /\ FieldInit

NextField ==
    \/ RoundTrip /\ UNCHANGED <<regVars, deserVars>>
    \/ CoalesceDeserializeCall /\ UNCHANGED <<regVars, deserVars>>
    \/ CoalesceSerializeCall /\ UNCHANGED <<regVars, deserVars>>
    \/ TextDeserializeCall /\ UNCHANGED <<regVars, deserVars>>

SpecField == InitField /\ [][NextField]_vars

\* ------------------------------------------------------ claims, Part IV
FieldDone == fresult # None
FRes == Val(fresult)

RoundTripsEqual == FRes.de.ok /\ PyEq(FRes.de.v, fcase.value)

Representable(f, v) ==
    CASE f.kind = "Float" ->
           /\ v.t = "float"
           /\ f.max_precision = None \/ RoundFloat(v.h, Val(f.max_precision)) = v.h
      [] f.kind = "Datetime" -> v.d.year >= 1000 /\ v.d.microsecond = 0 /\ ~v.d.aware
      [] OTHER -> TRUE

CoFields == fcase.f.fields
ChildOut(i) == Field_deserialize(CoFields[i], fcase.value)
SameOutcome(r, o) ==
    /\ r.ok = o.ok
    /\ IF r.ok THEN r.v = o.v ELSE r.exc = o.exc
\* the deserialize calls the CoalesceField made on its fields, in order
ChildCalls == Tail(FRes.calls)
CallsUpTo(i) == [j \in 1..i |-> [f |-> CoFields[j], arg |-> fcase.value]]
FirstOk ==
    {i \in 1..(Len(CoFields) - 1) :
        ChildOut(i).ok /\ \A j \in 1..(i - 1) : ~ChildOut(j).ok}

\* C9: CoalesceField.deserialize returns the result of the first field before
\* the last that succeeds and calls no later field; when all of those fail it
\* ends as the last field's deserialize does; serialize is the first field's.
C9_CoalesceFirstSuccess ==
    /\ (FieldDone /\ fcase.op = "coalesce_deserialize") =>
          /\ \A i \in FirstOk :
                SameOutcome(FRes, ChildOut(i)) /\ ChildCalls = CallsUpTo(i)
          /\ FirstOk = {} =>
                /\ SameOutcome(FRes, ChildOut(Len(CoFields)))
                /\ ChildCalls = CallsUpTo(Len(CoFields))
    /\ (FieldDone /\ fcase.op = "coalesce_serialize") =>
          FRes.ser = Field_serialize(CoFields[1], fcase.value)

\* three fields: the first failed, the second succeeded, the third was not called
C9_Witness ==
    /\ FieldDone /\ fcase.op = "coalesce_deserialize"
    /\ Len(CoFields) = 3
    /\ ~ChildOut(1).ok /\ ChildOut(2).ok
    /\ FRes.ok /\ Len(ChildCalls) = 2

\* C10: with a pattern set, Text.deserialize succeeds exactly when the length
\* is within the inclusive bounds and the whole string matches the pattern.
C10_FullMatchRequired ==
    (FieldDone /\ fcase.op = "text" /\ fcase.value.t = "str" /\ fcase.f.pattern # None) =>
        (FRes.ok <=> (/\ ~Outside(fcase.f, Len(fcase.value.s))
                      /\ fcase.value.s = Val(fcase.f.pattern)))

\* what the code does instead: the pattern has to match at the start only
TextPrefixMatch ==
    (FieldDone /\ fcase.op = "text" /\ fcase.value.t = "str" /\ fcase.f.pattern # None) =>
        (FRes.ok <=> (/\ ~Outside(fcase.f, Len(fcase.value.s))
                      /\ ReMatch(Val(fcase.f.pattern), fcase.value.s)))

====
